---------------------------- MODULE Spec2Model ----------------------------
(***************************************************************************)
(* A model of SpaceEngineersCleaner.py: the decision engine                *)
(* (get_cubegrids_to_delete), the byte-level patch engine                  *)
(* (make_replacements, as used twice by clean_up) and the control flow of  *)
(* run().                                                                  *)
(*                                                                         *)
(* A buffer is a sequence of lexemes.  Every marker of the program is a    *)
(* short sequence of lexemes, searched for with the semantics of Python's  *)
(* str.find; positions are 0-based as in the source, and indexing follows  *)
(* Python (a negative index counts from the end, an index outside          *)
(* -len..len-1 raises IndexError).                                         *)
(***************************************************************************)
EXTENDS Integers, Sequences, FiniteSets, TLC

VARIABLES
    content,        \* make_replacements: the buffer being patched
    next_pos,       \* make_replacements: the scan cursor
    start_pos,      \* make_replacements: where the span at hand starts
    mr_pc,          \* "call" | "find" | "match" | "returned" | "raised" | "idle"
    policy,         \* "delete" | "disable": which call of clean_up is modelled
    ids_to_delete,  \* clean_up: the ids of the grids to delete
    input,          \* history: the buffer make_replacements was called with, and its layout
    applied,        \* history: start_pos of every content_changer call, in order
    last,           \* history: the span last located, and the cursor it was found from
    args,           \* run: the parsed command line
    player_seen,    \* run: the players the logs show within --delete-after-days
    world,          \* the save on disk before the run: its grids, and the files
    disk,           \* the .sbs files by path
    reports,        \* the .csv files written so far
    cubegrids,      \* get_cubegrids' list of CubeGrid objects
    to_delete,      \* get_cubegrids_to_delete's set, as positions in cubegrids
    pc,             \* run: where the program is
    events          \* history: what run() has done, in order

patch_vars ==
    <<content, next_pos, start_pos, mr_pc, policy, ids_to_delete, input, applied, last>>
run_vars == <<args, player_seen, world, disk, reports, cubegrids, to_delete, pc, events>>
vars == <<patch_vars, run_vars>>

-----------------------------------------------------------------------------
(* Lexemes and the program's literals                                      *)

SP == "SP"
TAB == "TAB"
CR == "CR"
LF == "LF"

\* the markers and type names are written without their MyObjectBuilder_ prefix
cubegrid_start_xml == <<"<EntityBase CubeGrid>">>
cubegrid_end_xml == <<"</EntityBase>">>

block_start_xml == <<"<CubeBlock ">>
block_end_xml == <<"</CubeBlock>">>

\* '\n          <Enabled>true</Enabled>' and its one-byte-longer counterpart
enabled_xml == <<LF, "<Enabled>true</Enabled>">>
disabled_xml == <<LF, "<Enabled>fals", "e</Enabled>">>

types_to_disable ==
    {"Drill", "OreDetector", "Projector", "TimerBlock", "ShipGrinder", "ShipWelder"}

block_type_xml(type) == <<"xsi:type=", type>>

\* '%d' of a natural number: its decimal digits, most significant first
RECURSIVE Digits(_)
Digits(n) ==
    IF n < 10 THEN <<ToString(n)>> ELSE Append(Digits(n \div 10), ToString(n % 10))

entity_id_xml(id) == <<"<EntityId>">> \o Digits(id) \o <<"</EntityId>">>

-----------------------------------------------------------------------------
(* Python's string primitives                                              *)

\* a slice bound as Python normalises it
Clamp(n, i) == IF i < 0 THEN (IF n + i < 0 THEN 0 ELSE n + i) ELSE (IF i > n THEN n ELSE i)

\* text[a:b]
Slice(text, a, b) ==
    LET n == Len(text)
        lo == Clamp(n, a)
        hi == Clamp(n, b)
    IN  IF hi <= lo THEN <<>> ELSE SubSeq(text, lo + 1, hi)

\* whether sub occurs in text at 0-based offset i
OccursAt(text, sub, i) ==
    /\ i >= 0
    /\ i + Len(sub) <= Len(text)
    /\ \A k \in 1..Len(sub) : text[i + k] = sub[k]

\* text.find(sub, start, end): the lowest offset in range at which sub occurs
FindIn(text, sub, start, end) ==
    LET lo == Clamp(Len(text), start)
        hi == Clamp(Len(text), end) - Len(sub)
        First(i) == OccursAt(text, sub, i) /\ \A j \in lo..(i - 1) : ~OccursAt(text, sub, j)
    IN  IF start <= Len(text) /\ \E i \in lo..hi : First(i)
        THEN CHOOSE i \in lo..hi : First(i)
        ELSE -1

\* text.find(sub, start)
Find(text, sub, start) == FindIn(text, sub, start, Len(text))

\* text[i] is defined (no IndexError)
InRange(text, i) == -Len(text) <= i /\ i < Len(text)

\* text[i], for i in range
At(text, i) == IF i < 0 THEN text[Len(text) + i + 1] ELSE text[i + 1]

\* text.replace(old, new, 1)
ReplaceFirst(text, old, new) ==
    LET i == Find(text, old, 0)
    IN  IF i = -1 THEN text
        ELSE Slice(text, 0, i) \o new \o Slice(text, i + Len(old), Len(text))

-----------------------------------------------------------------------------
(* make_replacements                                                       *)

\* clean_up's first content_matcher: the span holds the id tag of a grid to delete
DeleteMatcher(text, ids, span_start, span_end) ==
    \E id \in ids : FindIn(text, entity_id_xml(id), span_start, span_end) # -1

\* clean_up's first content_changer: text[:start_pos] + text[next_pos:]
DeleteChanger(text, span_start, span_end) ==
    Slice(text, 0, span_start) \o Slice(text, span_end, Len(text))

\* clean_up's second content_matcher
DisableMatcher(text, span_start, span_end) ==
    /\ FindIn(text, enabled_xml, span_start, span_end) # -1
    /\ \E type \in types_to_disable :
           FindIn(text, block_type_xml(type), span_start, span_end) # -1

\* a changer that drops the enabled literal instead of replacing it
DisableChangerDropping(text, span_start, span_end) ==
    Slice(text, 0, span_start)
        \o ReplaceFirst(Slice(text, span_start, span_end), enabled_xml, <<>>)
        \o Slice(text, span_end, Len(text))

\* clean_up's second content_changer
DisableChanger(text, span_start, span_end) ==
    Slice(text, 0, span_start)
        \o ReplaceFirst(Slice(text, span_start, span_end), enabled_xml, disabled_xml)
        \o Slice(text, span_end, Len(text))

start_substr(pol) == IF pol = "delete" THEN cubegrid_start_xml ELSE block_start_xml
end_substr(pol) == IF pol = "delete" THEN cubegrid_end_xml ELSE block_end_xml

content_matcher(pol, text, ids, span_start, span_end) ==
    IF pol = "delete" THEN DeleteMatcher(text, ids, span_start, span_end)
    ELSE DisableMatcher(text, span_start, span_end)

content_changer(pol, text, span_start, span_end) ==
    IF pol = "delete" THEN DeleteChanger(text, span_start, span_end)
    ELSE DisableChanger(text, span_start, span_end)

\* both calls of clean_up leave include_surrounding_whitespace at its default
include_surrounding_whitespace == TRUE

\* while include_surrounding_whitespace and content[start_pos - 1] in [' ', '\t']
RECURSIVE TrimBack(_, _)
TrimBack(text, span_start) ==
    IF ~include_surrounding_whitespace THEN [raised |-> FALSE, pos |-> span_start]
    ELSE IF ~InRange(text, span_start - 1) THEN [raised |-> TRUE, pos |-> span_start]
    ELSE IF At(text, span_start - 1) \in {SP, TAB} THEN TrimBack(text, span_start - 1)
    ELSE [raised |-> FALSE, pos |-> span_start]

\* while include_surrounding_whitespace and content[next_pos] in ['\r', '\n']
RECURSIVE TrimForward(_, _)
TrimForward(text, pos) ==
    IF ~include_surrounding_whitespace THEN [raised |-> FALSE, pos |-> pos]
    ELSE IF ~InRange(text, pos) THEN [raised |-> TRUE, pos |-> pos]
    ELSE IF At(text, pos) \in {CR, LF} THEN TrimForward(text, pos + 1)
    ELSE [raised |-> FALSE, pos |-> pos]

\* a scan that resumes past the span it changed
ResumeAtSpanEnd(span_start, span_end) == span_end

\* where the scan resumes after a change
ResumeAfterChange(span_start, span_end) == span_start

\* Lines 240-254 of one iteration, from cursor pos in text: the span located.
\*   kind: "nostart" and "noend" are the two breaks, "raised" an IndexError,
\*   "found" a span start_pos..end_pos; next_pos is what the code leaves in it.
Locate(pol, text, pos) ==
    LET \* F(v) with v evaluated once, as an assignment to a local variable does
        Bind(v, F(_)) == CHOOSE r \in {F(x) : x \in {v}} : TRUE
        Span(back, fwd) ==
            [kind |-> IF fwd.raised THEN "raised" ELSE "found",
             next_pos |-> fwd.pos, start_pos |-> back.pos, end_pos |-> fwd.pos]
        AfterEnd(back, end_found) ==
            IF end_found = -1 THEN
                [kind |-> "noend", next_pos |-> -1, start_pos |-> back.pos, end_pos |-> -1]
            ELSE Bind(TrimForward(text, end_found + Len(end_substr(pol))),
                      LAMBDA fwd : Span(back, fwd))
        AfterBack(back) ==
            IF back.raised THEN
                [kind |-> "raised", next_pos |-> pos, start_pos |-> back.pos, end_pos |-> -1]
            ELSE Bind(Find(text, end_substr(pol), back.pos),
                      LAMBDA end_found : AfterEnd(back, end_found))
        AfterStart(found) ==
            IF found = -1 THEN
                [kind |-> "nostart", next_pos |-> pos, start_pos |-> -1, end_pos |-> -1]
            ELSE Bind(TrimBack(text, found), AfterBack)
    IN  Bind(Find(text, start_substr(pol), pos), AfterStart)

\* One iteration of the while True loop: lines 240-262.
\*   kind: as Locate's, with "found" split into "skip" (the continue of a span
\*   that does not match) and "change" (a span that matches and is changed).
Iteration(pol, text, ids, pos) ==
    LET loc == Locate(pol, text, pos)
    IN  IF loc.kind # "found" THEN
            [kind |-> loc.kind, content |-> text, next_pos |-> loc.next_pos,
             start_pos |-> loc.start_pos, end_pos |-> loc.end_pos]
        ELSE IF ~content_matcher(pol, text, ids, loc.start_pos, loc.end_pos) THEN
            [kind |-> "skip", content |-> text, next_pos |-> loc.end_pos,
             start_pos |-> loc.start_pos, end_pos |-> loc.end_pos]
        ELSE
            [kind |-> "change",
             content |-> content_changer(pol, text, loc.start_pos, loc.end_pos),
             next_pos |-> ResumeAfterChange(loc.start_pos, loc.end_pos),
             start_pos |-> loc.start_pos, end_pos |-> loc.end_pos]

\* the whole call: the loop run to its end, as clean_up uses it
RECURSIVE make_replacements(_, _, _, _)
make_replacements(pol, text, ids, pos) ==
    LET it == Iteration(pol, text, ids, pos)
    IN  IF it.kind \in {"nostart", "noend"} THEN [raised |-> FALSE, content |-> it.content]
        ELSE IF it.kind = "raised" THEN [raised |-> TRUE, content |-> it.content]
        ELSE make_replacements(pol, it.content, ids, it.next_pos)

-----------------------------------------------------------------------------
(* The decision engine                                                     *)

part_types == {"Wheel", "PistonTop", "MotorRotor", "MotorAdvancedRotor"}

respawn_ship_names ==
    {<<"Atmospheric Lander mk", ".", "1">>, <<"RespawnShip">>, <<"RespawnShip2">>}

default_beacon_names == {"Atmospheric_Lander_mk.1"}

DigitLexemes == {"0", "1", "2", "3", "4", "5", "6", "7", "8", "9"}

NumberedPrefixes ==
    {"Small Grid ", "Small Ship ", "Large Grid ", "Large Ship ", "Static Grid ",
     "Platform "}

\* some pattern of default_grid_name_patterns matches the name (re.match):
\* a name is its leading text followed by single characters; the '.' of
\* '^Atmospheric Lander mk.1$' matches any one character
MatchesDefaultNamePattern(name) ==
    \/ Len(name) = 3 /\ name[1] = "Atmospheric Lander mk" /\ name[3] = "1"
    \/ name = <<"RespawnShip">>
    \/ name = <<"RespawnShip2">>
    \/ /\ Len(name) >= 2
       /\ name[1] \in NumberedPrefixes
       /\ \A k \in 2..Len(name) : name[k] \in DigitLexemes

Range(seq) == {seq[k] : k \in 1..Len(seq)}

NoRepeats(seq) == \A i, j \in 1..Len(seq) : i # j => seq[i] # seq[j]

\* run's lambdas over the command line and the logs
is_player_active(a, seen, name) ==
    IF a.delete_after_days # 0 THEN name \in seen ELSE TRUE

are_all_players_inactive(a, seen, player_names) ==
    \A k \in 1..Len(player_names) : ~is_player_active(a, seen, player_names[k])

are_all_players_deletable(a, player_names) ==
    ~\E k \in 1..Len(player_names) : player_names[k] \in a.keep_player_names

player_has_a_powered_medroom(grids, name) ==
    \E k \in 1..Len(grids) :
        /\ ~(grids[k].stored_power = 0 /\ grids[k].reactor_uranium_amount = 0)
        /\ "MedicalRoom" \in grids[k].block_types
        /\ name \in Range(grids[k].owner_names)

player_has_only_respawn_ship(grids, name) ==
    \A k \in 1..Len(grids) :
        name \notin Range(grids[k].owner_names) \/ grids[k].name \in respawn_ship_names

all_players_have_no_powered_medrooms(grids, names) ==
    \A k \in 1..Len(names) : ~player_has_a_powered_medroom(grids, names[k])

all_players_have_only_respawn_ships(grids, names) ==
    \A k \in 1..Len(names) : player_has_only_respawn_ship(grids, names[k])

TrashThreshold == 50

\* the body of the "delete trash" loop reaches its append
TrashSelects(g) ==
    /\ ~g.part_of_something
    /\ ~(Len(g.owner_ids) > 0)
    /\ ~(g.block_count > TrashThreshold)

\* the beacon test of the "default names" loop: TRUE means continue (keep the grid)
BeaconsProtect(g) ==
    LET grids_default_beacon_names ==
            SelectSeq(g.custom_beacon_names, LAMBDA b : b \in default_beacon_names)
    IN  g.beacon_count > 0 \/ g.beacon_count # Len(grids_default_beacon_names)

\* the body of the "default names" loop reaches its append
DefaultNameSelects(a, g) ==
    /\ ~g.part_of_something
    /\ MatchesDefaultNamePattern(g.name)
    /\ are_all_players_deletable(a, g.owner_names)
    /\ ~BeaconsProtect(g)

\* the body of the "respawn ships" loop reaches its append
RespawnSelects(g) == g.name \in respawn_ship_names

\* the last loop gets past its two continue statements
OwnerRulesApply(a, g) ==
    /\ ~(Len(g.owner_names) = 0)
    /\ are_all_players_deletable(a, g.owner_names)

\* the last loop with its first two ifs exchanged
OwnerReasonsExchanged(a, seen, grids, g) ==
    IF ~OwnerRulesApply(a, g) THEN <<>>
    ELSE (IF all_players_have_no_powered_medrooms(grids, g.owner_names)
             THEN <<"Dead-ish Owners">> ELSE <<>>)
         \o (IF are_all_players_inactive(a, seen, g.owner_names)
             THEN <<"Inactive Owners">> ELSE <<>>)
         \o (IF all_players_have_only_respawn_ships(grids, g.owner_names)
             THEN <<"Respawn-Ship Only Owners">> ELSE <<>>)

\* the labels the last loop appends to one grid, in the order of its three ifs
OwnerReasons(a, seen, grids, g) ==
    IF ~OwnerRulesApply(a, g) THEN <<>>
    ELSE (IF are_all_players_inactive(a, seen, g.owner_names)
             THEN <<"Inactive Owners">> ELSE <<>>)
         \o (IF all_players_have_no_powered_medrooms(grids, g.owner_names)
             THEN <<"Dead-ish Owners">> ELSE <<>>)
         \o (IF all_players_have_only_respawn_ships(grids, g.owner_names)
             THEN <<"Respawn-Ship Only Owners">> ELSE <<>>)

\* cubegrid.deletion_reasons.append(label) for every grid a loop selects
AppendReason(grids, selected, label) ==
    [k \in 1..Len(grids) |->
        IF k \in selected
        THEN [grids[k] EXCEPT !.deletion_reasons = Append(@, label)]
        ELSE grids[k]]

-----------------------------------------------------------------------------
(* The save files                                                          *)

\* Sandbox.sbc: identity id -> display name
player_id_to_name == (101 :> "Alice") @@ (102 :> "Bob")

Entity(name, owner_ids, block_count, beacon_names, unnamed, power, uranium, types) ==
    [name |-> name, owner_ids |-> owner_ids, block_count |-> block_count,
     custom_beacon_names |-> beacon_names,
     beacon_count |-> Len(beacon_names) + unnamed,
     stored_power |-> power, uranium |-> uranium, block_types |-> types]

\* the grids a save is made of
Archetypes ==
    << Entity(<<"Small Grid ", "7">>, <<>>, 5, <<>>, 0, 0, 0, {"Armor"}),
       Entity(<<"Small Grid ", "3">>, <<>>, 1, <<>>, 0, 0, 0, {"Wheel"}),
       Entity(<<"Platform ", "1", "0">>, <<>>, 51, <<>>, 0, 0, 0, {"Armor", "Drill"}),
       Entity(<<"RespawnShip">>, <<101>>, 20, <<>>, 0, 1, 0, {"Cockpit", "Drill"}),
       Entity(<<"Atmospheric Lander mk", ".", "1">>, <<102>>, 30,
              <<"Atmospheric_Lander_mk.1">>, 0, 1, 0, {"Beacon", "Cockpit"}),
       Entity(<<"Base">>, <<101>>, 60, <<"Home">>, 0, 2, 0,
              {"Beacon", "MedicalRoom", "Drill"}),
       Entity(<<"Base">>, <<102>>, 51, <<>>, 1, 0, 0, {"Beacon", "MedicalRoom"}),
       Entity(<<"Large Ship ", "4">>, <<101, 102>>, 40,
              <<"Atmospheric_Lander_mk.1", "Miner">>, 0, 0, 3, {"Beacon", "Reactor"}),
       Entity(<<"Small Ship ", "2">>, <<102>>, 8, <<>>, 0, 0, 0, {"Cockpit"}) >>

MaxGrids == 2

\* the saves explored: up to MaxGrids grids, listed in the order of Archetypes
Worlds ==
    LET Picks == UNION {[1..n -> 1..Len(Archetypes)] : n \in 0..MaxGrids}
        Sorted == {f \in Picks : \A k \in 1..(Len(f) - 1) : f[k] <= f[k + 1]}
    IN  {[k \in 1..Len(f) |-> Archetypes[f[k]]] : f \in Sorted}

\* the EntityId of the k-th grid of the save
EntityIdAt(k) == IF k = 1 THEN 12 ELSE IF k = 2 THEN 1 ELSE 20 + k

\* a block of the save, as the .sbs file spells it
BlockXml(type) ==
    <<SP>> \o block_start_xml \o block_type_xml(type) \o <<">">>
        \o enabled_xml \o <<LF>> \o <<SP>> \o block_end_xml \o <<LF>>

\* the k-th grid of the save, as the .sbs file spells it
GridXml(k, e) ==
    <<SP>> \o cubegrid_start_xml \o <<LF>> \o entity_id_xml(EntityIdAt(k)) \o <<LF>>
        \o (IF "Drill" \in e.block_types THEN BlockXml("Drill") ELSE <<>>)
        \o (IF "Reactor" \in e.block_types THEN BlockXml("Reactor") ELSE <<>>)
        \o cubegrid_end_xml \o <<CR, LF>>

RECURSIVE GridsXml(_, _)
GridsXml(grids, k) ==
    IF k > Len(grids) THEN <<>> ELSE GridXml(k, grids[k]) \o GridsXml(grids, k + 1)

\* SANDBOX_0_0_0_.sbs
SbsFile(grids) == <<"<Sector>", LF>> \o GridsXml(grids, 1) \o <<"</Sector>">>

SbsIn == "SANDBOX_0_0_0_.sbs"
SbsCleanedUp == "SANDBOX_0_0_0_.cleanedup.sbs"
Absent == <<"(no such file)">>

\* the files before the run
DiskBefore(w) ==
    (SbsIn :> SbsFile(w.grids))
        @@ (SbsCleanedUp :> IF w.stale_output THEN <<"<Sector>", "</Sector>">> ELSE Absent)

\* get_cubegrids: one CubeGrid per grid of the save
CubeGrid(k, e) ==
    [id |-> EntityIdAt(k),
     name |-> e.name,
     owner_ids |-> e.owner_ids,
     owner_names |-> [j \in 1..Len(e.owner_ids) |-> player_id_to_name[e.owner_ids[j]]],
     block_count |-> e.block_count,
     beacon_count |-> e.beacon_count,
     custom_beacon_names |-> e.custom_beacon_names,
     stored_power |-> e.stored_power,
     reactor_uranium_amount |-> e.uranium,
     part_of_something |-> (e.block_types \cap part_types) # {},
     block_types |-> e.block_types,
     deletion_reasons |-> <<>>]

get_cubegrids(grids) == [k \in 1..Len(grids) |-> CubeGrid(k, grids[k])]

-----------------------------------------------------------------------------
(* run()                                                                   *)

PlayerNames == {"Alice", "Bob"}

ArgSets ==
    [delete_trash : BOOLEAN, delete_respawn_ships : BOOLEAN,
     delete_default_names : BOOLEAN, delete_after_days : {0, 30},
     keep_player_names : {{}, {"Alice"}},
     sbs_in : {SbsIn}, sbs_out : {SbsCleanedUp}]

RunInit ==
    /\ args \in ArgSets
    /\ player_seen \in IF args.delete_after_days = 0 THEN {{}} ELSE {{}, {"Alice"}}
    /\ world \in [grids : Worlds, stale_output : BOOLEAN]
    /\ disk = DiskBefore(world)
    /\ reports = {}
    /\ cubegrids = <<>>
    /\ to_delete = {}
    /\ pc = "parse"
    /\ events = <<>>

\* the patch engine is not running on its own
PatchIdle ==
    /\ content = <<>>
    /\ next_pos = 0
    /\ start_pos = 0
    /\ mr_pc = "idle"
    /\ policy = "delete"
    /\ ids_to_delete = {}
    /\ input = [text |-> <<>>, pieces |-> <<>>]
    /\ applied = <<>>
    /\ last = [kind |-> "none", from |-> 0, start_pos |-> -1, end_pos |-> -1]

Init == RunInit /\ PatchIdle

\* lines 364-383: the logs, players.csv, the two documents, get_cubegrids
ParseInputs ==
    /\ pc = "parse"
    /\ reports' = IF args.delete_after_days # 0 THEN {"players.csv"} ELSE {}
    /\ cubegrids' = get_cubegrids(world.grids)
    /\ to_delete' = {}
    /\ pc' = "trash"
    /\ UNCHANGED <<args, player_seen, world, disk, events>>
    /\ UNCHANGED patch_vars

\* the first loop without the test of args.delete_trash
TrashPassUntoggled ==
    /\ pc = "trash"
    /\ LET selected == {k \in 1..Len(cubegrids) : TrashSelects(cubegrids[k])}
       IN  /\ cubegrids' = AppendReason(cubegrids, selected, "Trash")
           /\ to_delete' = to_delete \cup selected
    /\ pc' = "default_names"
    /\ UNCHANGED <<args, player_seen, world, disk, reports, events>>
    /\ UNCHANGED patch_vars

\* get_cubegrids_to_delete, lines 170-186
TrashPass ==
    /\ pc = "trash"
    /\ IF args.delete_trash
       THEN LET selected == {k \in 1..Len(cubegrids) : TrashSelects(cubegrids[k])}
            IN  /\ cubegrids' = AppendReason(cubegrids, selected, "Trash")
                /\ to_delete' = to_delete \cup selected
       ELSE UNCHANGED <<cubegrids, to_delete>>
    /\ pc' = "default_names"
    /\ UNCHANGED <<args, player_seen, world, disk, reports, events>>
    /\ UNCHANGED patch_vars

\* get_cubegrids_to_delete, lines 188-205
DefaultNamePass ==
    /\ pc = "default_names"
    /\ IF args.delete_default_names
       THEN LET selected ==
                    {k \in 1..Len(cubegrids) : DefaultNameSelects(args, cubegrids[k])}
            IN  /\ cubegrids' =
                       AppendReason(cubegrids, selected, "Default Name & No Custom Beacon")
                /\ to_delete' = to_delete \cup selected
       ELSE UNCHANGED <<cubegrids, to_delete>>
    /\ pc' = "respawn_ships"
    /\ UNCHANGED <<args, player_seen, world, disk, reports, events>>
    /\ UNCHANGED patch_vars

\* get_cubegrids_to_delete, lines 207-212
RespawnPass ==
    /\ pc = "respawn_ships"
    /\ IF args.delete_respawn_ships
       THEN LET selected == {k \in 1..Len(cubegrids) : RespawnSelects(cubegrids[k])}
            IN  /\ cubegrids' = AppendReason(cubegrids, selected, "Respawn Ship")
                /\ to_delete' = to_delete \cup selected
       ELSE UNCHANGED <<cubegrids, to_delete>>
    /\ pc' = "owners"
    /\ UNCHANGED <<args, player_seen, world, disk, reports, events>>
    /\ UNCHANGED patch_vars

\* get_cubegrids_to_delete, lines 214-234
OwnersPass ==
    /\ pc = "owners"
    /\ cubegrids' =
           [k \in 1..Len(cubegrids) |->
               [cubegrids[k] EXCEPT !.deletion_reasons =
                   @ \o OwnerReasons(args, player_seen, cubegrids, cubegrids[k])]]
    /\ to_delete' = to_delete \cup
           {k \in 1..Len(cubegrids) :
               OwnerReasons(args, player_seen, cubegrids, cubegrids[k]) # <<>>}
    /\ pc' = "report"
    /\ UNCHANGED <<args, player_seen, world, disk, reports, events>>
    /\ UNCHANGED patch_vars

\* run() without the test for nothing to delete
ReportThenPrompt ==
    /\ pc = "report"
    /\ reports' = reports \cup {"grids.csv", "grids-delete.csv"}
    /\ pc' = "prompt"
    /\ events' = Append(events, "prompt")
    /\ UNCHANGED <<args, player_seen, world, disk, cubegrids, to_delete>>
    /\ UNCHANGED patch_vars

\* lines 386-391: the two .csv files, then the test for nothing to delete
Report ==
    /\ pc = "report"
    /\ reports' = reports \cup {"grids.csv", "grids-delete.csv"}
    /\ IF Cardinality(to_delete) = 0
       THEN /\ pc' = "nothing_to_delete"
            /\ events' = Append(events, "nothing to delete")
       ELSE /\ pc' = "prompt"
            /\ events' = Append(events, "prompt")
    /\ UNCHANGED <<args, player_seen, world, disk, cubegrids, to_delete>>
    /\ UNCHANGED patch_vars

\* line 394: the operator presses Enter
Confirm ==
    /\ pc = "prompt"
    /\ pc' = "clean_up"
    /\ events' = Append(events, "confirmed")
    /\ UNCHANGED <<args, player_seen, world, disk, reports, cubegrids, to_delete>>
    /\ UNCHANGED patch_vars

\* line 394: the operator presses Ctrl-C, and getpass raises KeyboardInterrupt
Abort ==
    /\ pc = "prompt"
    /\ pc' = "aborted"
    /\ events' = Append(events, "aborted")
    /\ UNCHANGED <<args, player_seen, world, disk, reports, cubegrids, to_delete>>
    /\ UNCHANGED patch_vars

\* clean_up: read, delete the grids, disable the blocks, write
CleanUp ==
    /\ pc = "clean_up"
    /\ LET read == disk[args.sbs_in]
           ids == {cubegrids[k].id : k \in to_delete}
           deleted == make_replacements("delete", read, ids, 0)
           disabled == make_replacements("disable", deleted.content, {}, 0)
       IN  IF deleted.raised \/ disabled.raised
           THEN /\ pc' = "crashed"
                /\ events' = Append(events, "IndexError")
                /\ UNCHANGED disk
           ELSE /\ pc' = "done"
                /\ events' = Append(events, "written")
                /\ disk' = [disk EXCEPT ![args.sbs_out] = disabled.content]
    /\ UNCHANGED <<args, player_seen, world, reports, cubegrids, to_delete>>
    /\ UNCHANGED patch_vars

Next ==
    \/ ParseInputs
    \/ TrashPass
    \/ DefaultNamePass
    \/ RespawnPass
    \/ OwnersPass
    \/ Report
    \/ Confirm
    \/ Abort
    \/ CleanUp

Spec == Init /\ [][Next]_vars

-----------------------------------------------------------------------------
(* Properties of the decision engine and of run()                          *)

\* get_cubegrids_to_delete has returned
Decided ==
    pc \in {"report", "nothing_to_delete", "prompt", "aborted", "clean_up", "done", "crashed"}

HasKeptOwner(g) == \E j \in 1..Len(g.owner_names) : g.owner_names[j] \in args.keep_player_names

\* C3: no grid with an owner named in --keep-player-names is in the set
\* get_cubegrids_to_delete returns, whatever the options and the activity.
C3_KeptPlayersGridsKept ==
    \A k \in to_delete : ~HasKeptOwner(cubegrids[k])

DefaultNameLabel == "Default Name & No Custom Beacon"

EveryBeaconHasDefaultLabel(g) ==
    /\ g.beacon_count = Len(g.custom_beacon_names)
    /\ \A j \in 1..Len(g.custom_beacon_names) : g.custom_beacon_names[j] \in default_beacon_names

SomeBeaconHasOtherLabel(g) ==
    \E j \in 1..Len(g.custom_beacon_names) : g.custom_beacon_names[j] \notin default_beacon_names

\* C4: with the default-name group enabled, a grid whose name matches a default
\* pattern and whose owners are all deletable gets the label "Default Name & No
\* Custom Beacon" and is selected if it has no beacon or only beacons with a
\* default label, and does not get it if a beacon has another label.
C4_DefaultNameGroup ==
    (Decided /\ args.delete_default_names) =>
        \A k \in 1..Len(cubegrids) :
            LET g == cubegrids[k]
            IN  (MatchesDefaultNamePattern(g.name) /\ ~HasKeptOwner(g)) =>
                    /\ (g.beacon_count = 0 \/ EveryBeaconHasDefaultLabel(g)) =>
                           (DefaultNameLabel \in Range(g.deletion_reasons) /\ k \in to_delete)
                    /\ SomeBeaconHasOtherLabel(g) =>
                           DefaultNameLabel \notin Range(g.deletion_reasons)

ThreeGroupsOff ==
    ~args.delete_trash /\ ~args.delete_default_names /\ ~args.delete_respawn_ships

\* C5, as claimed: with every rule group toggled off (no inactivity limit
\* either), get_cubegrids_to_delete returns the empty set and leaves every
\* deletion_reasons empty.
C5_AllGroupsOff ==
    (ThreeGroupsOff /\ args.delete_after_days = 0) =>
        /\ to_delete = {}
        /\ \A k \in 1..Len(cubegrids) : cubegrids[k].deletion_reasons = <<>>

OwnerLabels == {"Inactive Owners", "Dead-ish Owners", "Respawn-Ship Only Owners"}

\* C5, amended: the Trash, Default-name and Respawn-ship groups each have a
\* toggle, and a group that is off appends its label to no grid and adds no
\* grid to the result.  The ownership-based group has no toggle and always
\* runs: with the three others off, the result is exactly the set of grids to
\* which it gives a label, and deletion_reasons holds its labels only.
C5_ThreeGroupsToggle ==
    \A k \in 1..Len(cubegrids) :
        LET reasons == cubegrids[k].deletion_reasons
        IN  /\ ~args.delete_trash => "Trash" \notin Range(reasons)
            /\ ~args.delete_default_names => DefaultNameLabel \notin Range(reasons)
            /\ ~args.delete_respawn_ships => "Respawn Ship" \notin Range(reasons)
            /\ ThreeGroupsOff =>
                   /\ Range(reasons) \subseteq OwnerLabels
                   /\ k \in to_delete <=> Range(reasons) \cap OwnerLabels # {}
                   /\ ~Decided => (reasons = <<>> /\ to_delete = {})

\* every group is off, there is no inactivity limit, and a grid is selected
C5_Witness ==
    /\ pc = "prompt"
    /\ ThreeGroupsOff
    /\ args.delete_after_days = 0
    /\ to_delete # {}
    /\ \E k \in 1..Len(cubegrids) : k \notin to_delete

\* the labels, in the order in which get_cubegrids_to_delete evaluates the rules
LabelOrder ==
    <<"Trash", DefaultNameLabel, "Respawn Ship",
      "Inactive Owners", "Dead-ish Owners", "Respawn-Ship Only Owners">>

\* the rule of a label matches grid g of the collection
RuleMatches(label, g) ==
    LET owned == Len(g.owner_names) > 0 /\ ~HasKeptOwner(g)
        owners == Range(g.owner_names)
    IN  CASE label = "Trash" ->
                 /\ args.delete_trash
                 /\ ~g.part_of_something /\ g.owner_ids = <<>> /\ g.block_count <= TrashThreshold
          [] label = DefaultNameLabel ->
                 /\ args.delete_default_names
                 /\ ~g.part_of_something /\ MatchesDefaultNamePattern(g.name)
                 /\ ~HasKeptOwner(g) /\ g.beacon_count = 0
          [] label = "Respawn Ship" ->
                 args.delete_respawn_ships /\ g.name \in respawn_ship_names
          [] label = "Inactive Owners" ->
                 /\ owned
                 /\ args.delete_after_days # 0
                 /\ owners \cap player_seen = {}
          [] label = "Dead-ish Owners" ->
                 /\ owned
                 /\ \A n \in owners : ~player_has_a_powered_medroom(cubegrids, n)
          [] label = "Respawn-Ship Only Owners" ->
                 /\ owned
                 /\ \A n \in owners : player_has_only_respawn_ship(cubegrids, n)

\* C6: after get_cubegrids_to_delete, a grid is in the result exactly when its
\* deletion_reasons is not empty (the result is a set: it holds a grid once),
\* and deletion_reasons lists the label of every rule that matches the grid,
\* once, in the order Trash, Default Name & No Custom Beacon, Respawn Ship,
\* Inactive Owners, Dead-ish Owners, Respawn-Ship Only Owners.
C6_ReasonsAndResult ==
    Decided =>
        /\ \A k1, k2 \in to_delete : cubegrids[k1].id = cubegrids[k2].id => k1 = k2
        /\ \A k \in 1..Len(cubegrids) :
               LET g == cubegrids[k]
               IN  /\ k \in to_delete <=> g.deletion_reasons # <<>>
                   /\ g.deletion_reasons = SelectSeq(LabelOrder, LAMBDA l : RuleMatches(l, g))
                   /\ NoRepeats(g.deletion_reasons)

\* a grid named "RespawnShip" with one inactive deletable owner carries
\* "Respawn Ship" and then "Inactive Owners"
C6_Witness ==
    /\ pc = "prompt"
    /\ \E k \in to_delete :
           /\ cubegrids[k].name = <<"RespawnShip">>
           /\ Len(cubegrids[k].owner_names) = 1
           /\ \E i, j \in 1..Len(cubegrids[k].deletion_reasons) :
                  /\ i < j
                  /\ cubegrids[k].deletion_reasons[i] = "Respawn Ship"
                  /\ cubegrids[k].deletion_reasons[j] = "Inactive Owners"

\* C7: the output file is written only after the deletion set was found
\* non-empty and the operator then confirmed at the prompt.  With an empty
\* deletion set there is no prompt and no patch step; after an abort at the
\* prompt there is no patch step; in both cases no file is written or
\* overwritten.  The input file is never changed.
C7_WriteOnlyAfterConfirm ==
    /\ disk[args.sbs_in] = SbsFile(world.grids)
    /\ disk # DiskBefore(world) =>
           (events = <<"prompt", "confirmed", "written">> /\ to_delete # {} /\ pc = "done")
    /\ pc = "done" => events = <<"prompt", "confirmed", "written">>
    /\ pc = "clean_up" => (events = <<"prompt", "confirmed">> /\ to_delete # {})
    /\ pc = "prompt" => (events = <<"prompt">> /\ to_delete # {})
    /\ pc = "nothing_to_delete" =>
           (events = <<"nothing to delete">> /\ to_delete = {} /\ disk = DiskBefore(world))
    /\ pc = "aborted" => (events = <<"prompt", "aborted">> /\ disk = DiskBefore(world))
    /\ (Decided /\ pc # "report" /\ to_delete = {}) => pc = "nothing_to_delete"

\* the patched file has been written over an older one, after a confirmation
C7_Witness ==
    /\ pc = "done"
    /\ world.stale_output
    /\ disk[args.sbs_out] # DiskBefore(world)[args.sbs_out]
    /\ disk[args.sbs_out] # disk[args.sbs_in]

-----------------------------------------------------------------------------
(* make_replacements on its own, over buffers well-formed and not          *)

\* a grid record of the buffer: indentation, the record, its line break
RecordPiece(k, lead, trail) ==
    [kind |-> "record", id |-> EntityIdAt(k),
     text |-> lead \o cubegrid_start_xml \o entity_id_xml(EntityIdAt(k))
                  \o cubegrid_end_xml \o trail]

\* what else a buffer may hold: other content, a blank, a record cut short
OtherPieces(k) ==
    { [kind |-> "other", id |-> 0, text |-> <<"</Sector>">>],
      [kind |-> "other", id |-> 0, text |-> <<SP>>],
      [kind |-> "cut", id |-> EntityIdAt(k),
       text |-> cubegrid_start_xml \o entity_id_xml(EntityIdAt(k))] }

\* a record on a line of its own, and one with nothing around it
DeletePieces(k) ==
    {RecordPiece(k, <<TAB, SP>>, <<CR, LF>>), RecordPiece(k, <<>>, <<>>)}
        \cup OtherPieces(k)

\* a block record: its type, n enabled literals, its line break
BlockPiece(type, n, trail) ==
    [kind |-> "block", id |-> n,
     text |-> <<SP>> \o block_start_xml \o block_type_xml(type) \o <<">">>
                  \o (IF n = 1 THEN enabled_xml ELSE enabled_xml \o enabled_xml)
                  \o <<LF>> \o block_end_xml \o trail]

DisablePieces(k) ==
    {BlockPiece("Drill", n, <<LF>>) : n \in 1..2}
        \cup {BlockPiece("Reactor", 1, <<LF>>), BlockPiece("TimerBlock", 1, <<>>)}
        \cup { [kind |-> "other", id |-> 0, text |-> <<"</CubeBlocks>">>],
               [kind |-> "cut", id |-> 0,
                text |-> block_start_xml \o block_type_xml("Drill") \o enabled_xml] }

MaxPieces == 3

Layouts(pol) ==
    UNION { {f \in [1..n -> UNION {DeletePieces(k) \cup DisablePieces(k) : k \in 1..n}] :
                \A k \in 1..n :
                    f[k] \in (IF pol = "delete" THEN DeletePieces(k) ELSE DisablePieces(k))}
            : n \in 0..MaxPieces }

RECURSIVE Concat(_, _)
Concat(pieces, k) ==
    IF k > Len(pieces) THEN <<>> ELSE pieces[k].text \o Concat(pieces, k + 1)

\* the deletion sets tried, over the first three records' ids
DeleteSets ==
    { {}, {EntityIdAt(2)}, {EntityIdAt(1), EntityIdAt(3)},
      {EntityIdAt(1), EntityIdAt(2), EntityIdAt(3)} }

\* before the call: nothing to patch yet
PatchInit ==
    /\ policy = "delete"
    /\ input = [text |-> <<>>, pieces |-> <<>>]
    /\ content = <<>>
    /\ ids_to_delete = {}
    /\ next_pos = 0
    /\ start_pos = 0
    /\ mr_pc = "call"
    /\ applied = <<>>
    /\ last = [kind |-> "none", from |-> 0, start_pos |-> -1, end_pos |-> -1]

\* run() is not running
RunIdle ==
    /\ args = [delete_trash |-> FALSE, delete_respawn_ships |-> FALSE,
               delete_default_names |-> FALSE, delete_after_days |-> 0,
               keep_player_names |-> {}, sbs_in |-> SbsIn, sbs_out |-> SbsCleanedUp]
    /\ player_seen = {}
    /\ world = [grids |-> <<>>, stale_output |-> FALSE]
    /\ disk = DiskBefore(world)
    /\ reports = {}
    /\ cubegrids = <<>>
    /\ to_delete = {}
    /\ pc = "idle"
    /\ events = <<>>

\* lines 236-237: clean_up calls make_replacements, for either of its two uses
MRCall ==
    /\ mr_pc = "call"
    /\ policy' \in {"delete", "disable"}
    /\ \E pieces \in Layouts(policy') :
           input' = [text |-> Concat(pieces, 1), pieces |-> pieces]
    /\ content' = input'.text
    /\ ids_to_delete' \in (IF policy' = "delete" THEN DeleteSets ELSE {{}})
    /\ next_pos' = 0
    /\ mr_pc' = "find"
    /\ UNCHANGED <<start_pos, applied, last>>
    /\ UNCHANGED run_vars

\* the span the loop locates from its cursor
ThisSpan == Locate(policy, content, next_pos)

Took(loc, from) ==
    [kind |-> loc.kind, from |-> from, start_pos |-> loc.start_pos, end_pos |-> loc.end_pos]

\* line 242: no start marker from the cursor on
MRNoStart ==
    /\ mr_pc = "find"
    /\ \E loc \in {ThisSpan} :
           /\ loc.kind = "nostart"
           /\ mr_pc' = "returned"
           /\ start_pos' = loc.start_pos
           /\ last' = Took(loc, next_pos)
    /\ UNCHANGED <<content, next_pos, policy, ids_to_delete, input, applied>>
    /\ UNCHANGED run_vars

\* line 249: a start marker with no end marker after it
MRNoEnd ==
    /\ mr_pc = "find"
    /\ \E loc \in {ThisSpan} :
           /\ loc.kind = "noend"
           /\ mr_pc' = "returned"
           /\ start_pos' = loc.start_pos
           /\ next_pos' = loc.next_pos
           /\ last' = Took(loc, next_pos)
    /\ UNCHANGED <<content, policy, ids_to_delete, input, applied>>
    /\ UNCHANGED run_vars

\* lines 244 and 253: an index outside the buffer
MRIndexError ==
    /\ mr_pc = "find"
    /\ \E loc \in {ThisSpan} :
           /\ loc.kind = "raised"
           /\ mr_pc' = "raised"
           /\ start_pos' = loc.start_pos
           /\ next_pos' = loc.next_pos
           /\ last' = Took(loc, next_pos)
    /\ UNCHANGED <<content, policy, ids_to_delete, input, applied>>
    /\ UNCHANGED run_vars

\* lines 240-254: a span is located
MRFound ==
    /\ mr_pc = "find"
    /\ \E loc \in {ThisSpan} :
           /\ loc.kind = "found"
           /\ mr_pc' = "match"
           /\ start_pos' = loc.start_pos
           /\ next_pos' = loc.next_pos
           /\ last' = Took(loc, next_pos)
    /\ UNCHANGED <<content, policy, ids_to_delete, input, applied>>
    /\ UNCHANGED run_vars

\* lines 256-259: the span does not match
MRSkip ==
    /\ mr_pc = "match"
    /\ ~content_matcher(policy, content, ids_to_delete, start_pos, next_pos)
    /\ mr_pc' = "find"
    /\ UNCHANGED <<content, next_pos, start_pos, policy, ids_to_delete, input, applied, last>>
    /\ UNCHANGED run_vars

\* lines 256-262: the span matches and is changed
MRChange ==
    /\ mr_pc = "match"
    /\ content_matcher(policy, content, ids_to_delete, start_pos, next_pos)
    /\ content' = content_changer(policy, content, start_pos, next_pos)
    /\ next_pos' = ResumeAfterChange(start_pos, next_pos)
    /\ applied' = Append(applied, start_pos)
    /\ mr_pc' = "find"
    /\ UNCHANGED <<start_pos, policy, ids_to_delete, input, last>>
    /\ UNCHANGED run_vars

PatchNext ==
    \/ MRCall
    \/ MRNoStart
    \/ MRNoEnd
    \/ MRIndexError
    \/ MRFound
    \/ MRSkip
    \/ MRChange

InitPatch == PatchInit /\ RunIdle

SpecPatch == InitPatch /\ [][PatchNext]_vars

\* a step of the while True loop
MRLoop == MRNoStart \/ MRNoEnd \/ MRIndexError \/ MRFound \/ MRSkip \/ MRChange

\* once called, the loop is all the interpreter runs: it takes its next iteration
FairSpecPatch == SpecPatch /\ WF_vars(MRLoop)

-----------------------------------------------------------------------------
(* Properties of the patch engine                                          *)

MR_Stopped == mr_pc \in {"returned", "raised"}

\* the input is made of well-terminated grid records only (their ids are unique)
OnlyRecords == \A k \in 1..Len(input.pieces) : input.pieces[k].kind = "record"

Survivors == SelectSeq(input.pieces, LAMBDA p : p.id \notin ids_to_delete)
Deleted == SelectSeq(input.pieces, LAMBDA p : p.id \in ids_to_delete)

\* how often sub occurs in text[from:to]
Occurrences(text, sub, from, to) ==
    Cardinality({i \in from..(to - Len(sub)) : OccursAt(text, sub, i)})

\* C1: deletion policy. For every buffer of well-terminated records with unique
\* ids and every deletion set D, make_replacements returns a buffer that holds no
\* id tag of D, the id tag of every other record, the surviving records in their
\* order with their own indentation and line break, and that is shorter than the
\* input by exactly the deleted spans.
C1_DeletionPolicy ==
    (policy = "delete" /\ OnlyRecords /\ MR_Stopped) =>
        /\ mr_pc = "returned"
        /\ \A k \in 1..Len(input.pieces) :
               LET p == input.pieces[k]
               IN  (Find(content, entity_id_xml(p.id), 0) # -1) <=> (p.id \notin ids_to_delete)
        /\ content = Concat(Survivors, 1)
        /\ Len(content) = Len(input.text) - Len(Concat(Deleted, 1))

\* C2: if no span the scan visits matches, make_replacements returns its input
\* byte for byte.
C2_NoMatchIdentity ==
    (MR_Stopped /\ applied = <<>>) => (mr_pc = "returned" /\ content = input.text)

\* C10: make_replacements never raises and never looks outside the buffer: every
\* span has 0 <= spanStart < spanEnd <= len(buffer), and an unterminated record
\* only stops the scan.
C10_NeverRaises ==
    /\ mr_pc # "raised"
    /\ mr_pc = "match" => (0 <= start_pos /\ start_pos < next_pos /\ next_pos <= Len(content))
    /\ last.kind = "noend" => (0 <= last.start_pos /\ mr_pc = "returned")

\* the spans from the cursor on that satisfy the predicate, as a scan that
\* changes nothing meets them
RECURSIVE MatchingSpans(_, _, _, _)
MatchingSpans(pol, text, ids, pos) ==
    LET it == Iteration(pol, text, ids, pos)
    IN  IF it.kind = "skip" THEN MatchingSpans(pol, text, ids, it.end_pos)
        ELSE IF it.kind = "change" THEN 1 + MatchingSpans(pol, text, ids, it.end_pos)
        ELSE 0

\* the span the scan meets on resuming after a change
Resumed == Iteration(policy, content, ids_to_delete, next_pos)

\* C8, as claimed: once the toggle transform has been applied to a span the
\* toggle predicate no longer matches it and a second application changes
\* nothing; the transform is applied exactly once per span.
C8_ToggleOncePerSpan ==
    policy = "disable" =>
        /\ NoRepeats(applied)
        /\ (mr_pc = "find" /\ applied # <<>> /\ next_pos = applied[Len(applied)]) =>
               /\ Resumed.start_pos = start_pos
               /\ Resumed.kind = "skip"
               /\ DisableChanger(content, Resumed.start_pos, Resumed.end_pos) = content

\* C8, amended: each application of the toggle transform replaces exactly one
\* enabled literal of the span by the disabled one; the predicate matches the
\* span again exactly when an enabled literal is left in it.  So a span that
\* held the literal once is transformed once, and a second application would
\* change nothing.
C8_ToggleOncePerLiteral ==
    [][ (policy = "disable" /\ MRChange) =>
            LET n == Occurrences(content, enabled_xml, start_pos, next_pos)
                nxt == Iteration(policy, content', ids_to_delete', next_pos')
            IN  /\ n >= 1
                /\ nxt.start_pos = start_pos
                /\ nxt.end_pos = next_pos + Len(disabled_xml) - Len(enabled_xml)
                /\ Occurrences(content', enabled_xml, nxt.start_pos, nxt.end_pos) = n - 1
                /\ Occurrences(content', disabled_xml, 0, Len(content'))
                       = Occurrences(content, disabled_xml, 0, Len(content)) + 1
                /\ Len(content') = Len(content) + Len(disabled_xml) - Len(enabled_xml)
                /\ n = 1 => /\ nxt.kind = "skip"
                            /\ DisableChanger(content', nxt.start_pos, nxt.end_pos) = content'
                /\ n > 1 => nxt.kind = "change"
      ]_vars

\* a span was toggled once and no longer matches
C8_Witness ==
    /\ policy = "disable"
    /\ mr_pc = "find"
    /\ applied # <<>>
    /\ next_pos = applied[Len(applied)]
    /\ Resumed.kind = "skip"
    /\ Resumed.start_pos = start_pos

\* C9, as claimed: a loop iteration stops, or moves the cursor strictly forward
\* to the end of a span that does not match, or resumes from spanStart in a
\* buffer in which strictly fewer spans satisfy the predicate.
C9_FewerMatchingSpans ==
    [][ /\ MRSkip => (next_pos' > last.from /\ next_pos' = last.end_pos)
        /\ MRChange =>
               /\ next_pos' = start_pos
               /\ MatchingSpans(policy, content', ids_to_delete, next_pos')
                      < MatchingSpans(policy, content, ids_to_delete, last.from)
      ]_vars

\* what a change makes smaller: the buffer (deletion), its enabled literals (toggle)
Measure(pol, text) ==
    IF pol = "delete" THEN Len(text) ELSE Occurrences(text, enabled_xml, 0, Len(text))

\* C9, amended: make_replacements terminates under both policies: a loop
\* iteration stops, or moves the cursor strictly forward to the end of a span
\* that does not match, or resumes from spanStart in a buffer that is strictly
\* shorter (deletion) or holds strictly fewer enabled literals (toggle).
C9_Terminates ==
    /\ [][ /\ MRSkip => (next_pos' > last.from /\ next_pos' = last.end_pos)
           /\ MRChange =>
                  /\ next_pos' = start_pos
                  /\ Measure(policy, content') < Measure(policy, content)
         ]_vars
    /\ (mr_pc = "find") ~> MR_Stopped

\* the loop ended after matching one span twice and passing over another
C9_Witness ==
    /\ mr_pc = "returned"
    /\ policy = "disable"
    /\ Len(applied) >= 2
    /\ applied[1] = applied[2]
    /\ last.kind = "nostart"
    /\ next_pos > applied[Len(applied)]

=============================================================================
